---- MODULE Spec2Model ----
(***************************************************************************)
(* Model of dashboard.py: create_dashboard_workbook reads three tables,    *)
(* appends the research total, and builds a workbook of data sheets, a     *)
(* lookup sheet and two dashboards whose cells hold spreadsheet formulas.  *)
(* The formulas are kept as syntax trees and evaluated the way a           *)
(* spreadsheet engine evaluates them when the saved file is opened.        *)
(***************************************************************************)
EXTENDS Integers, Sequences, FiniteSets, TLC

VARIABLES pc, faculty_df, degrees_df, research_df, unique_institutions, wb,
          output_file

vars == <<pc, faculty_df, degrees_df, research_df, unique_institutions, wb,
          output_file>>

(***************************************************************************)
(* Bounds of the model.                                                    *)
(***************************************************************************)
\* rows of a generated faculty table
MaxFacultyRows == 2
\* distinct institution names in the generated faculty tables
MaxName == 2
\* distinct institution names of the largest faculty table
MaxWide == 7
\* rows of a generated research table (specification AggSpec)
MaxResearchRows == 2

(***************************************************************************)
(* Cell values.  Each kind is a record with its own field name, so two     *)
(* values of different kinds are simply unequal.  An institution name is   *)
(* Str(i), i being the rank of the string in lexicographic order.          *)
(***************************************************************************)
Str(i) == [str |-> i]
Num(n) == [num |-> n]
Text(s) == [text |-> s]
IsStr(v) == DOMAIN v = {"str"}
IsNum(v) == DOMAIN v = {"num"}

\* value of the columns the program never reads
Filler == Text("-")

SeqUpTo(S, n) == UNION {[1..k -> S] : k \in 0..n}

Range(s) == {s[i] : i \in DOMAIN s}

RECURSIVE SumSeq(_)
SumSeq(s) == IF s = <<>> THEN 0 ELSE Head(s) + SumSeq(Tail(s))

\* position of the first occurrence of x in s (x occurs in s)
IndexOf(s, x) == CHOOSE i \in DOMAIN s : s[i] = x /\ \A j \in 1..(i - 1) : s[j] # x

(***************************************************************************)
(* A DataFrame: the column labels and the records, each record a sequence  *)
(* of values in column order (what itertuples(index=False) yields).        *)
(***************************************************************************)
DataFrame(columns, rows) == [columns |-> columns, rows |-> rows]

NoFrame == DataFrame(<<>>, <<>>)

\* df[name] for one label: the column as a sequence, in row order
Column(df, name) ==
    LET c == IndexOf(df.columns, name)
    IN  [r \in DOMAIN df.rows |-> df.rows[r][c]]

fund_columns ==
    <<"Federal Fund Sum", "Foreign Fund Sum", "Individual Fund Sum",
      "Industry Fund Sum", "Local Fund Sum", "Non-Profit Fund Sum",
      "Research Expenditures State Fund Sum">>

\* df[fund_columns].sum(axis=1): per row, the sum of the labelled columns
SumAxis1(df, labels) ==
    [r \in DOMAIN df.rows |->
        SumSeq([k \in DOMAIN labels |-> df.rows[r][IndexOf(df.columns, labels[k])].num])]

\* df[name] = values: replaces the column when the label exists, else appends it
SetColumn(df, name, values) ==
    IF name \in Range(df.columns)
    THEN LET c == IndexOf(df.columns, name)
         IN  DataFrame(df.columns,
                 [r \in DOMAIN df.rows |-> [df.rows[r] EXCEPT ![c] = Num(values[r])]])
    ELSE DataFrame(Append(df.columns, name),
                 [r \in DOMAIN df.rows |-> Append(df.rows[r], Num(values[r]))])

(***************************************************************************)
(* Input files.  The code fixes the label 'School Name' of the faculty     *)
(* file and the seven fund labels of the research file; the formulas fix   *)
(* the positions (Faculty Data B, D:F; Degrees Data C, E:G; Research Data  *)
(* C, D:J).  The other labels are placeholders.                            *)
(***************************************************************************)
\* the layout the formulas address: name in column 2, counts in columns 4..6
FacultyByPosition ==
    [columns |-> <<"Year", "School Name", "Sector", "Bachelors Faculty",
                   "Masters Faculty", "Doctoral Faculty">>,
     name_at |-> 2, counts_at |-> <<4, 5, 6>>]

\* school name followed by the three counts
FacultyNameFirst ==
    [columns |-> <<"School Name", "Bachelors Faculty", "Masters Faculty",
                   "Doctoral Faculty">>,
     name_at |-> 1, counts_at |-> <<2, 3, 4>>]

\* a file without the label 'School Name'
FacultyNoSchoolName ==
    [columns |-> <<"Year", "Institution", "Sector", "Bachelors Faculty",
                   "Masters Faculty", "Doctoral Faculty">>,
     name_at |-> 2, counts_at |-> <<4, 5, 6>>]

FacultyLayouts == {FacultyByPosition, FacultyNameFirst}

\* a table from its layout and the <<name, counts>> of each row
MkTable(layout, rowspecs) ==
    DataFrame(layout.columns,
        [r \in DOMAIN rowspecs |->
            [c \in DOMAIN layout.columns |->
                IF c = layout.name_at THEN Str(rowspecs[r][1])
                ELSE IF c \in Range(layout.counts_at)
                     THEN Num(rowspecs[r][2][IndexOf(layout.counts_at, c)])
                     ELSE Filler]])

InstNames == 1..MaxName

FacultyCountVectors == {<<0, 0, 0>>, <<1, 2, 3>>}

\* k distinct names in descending order, then the first name once more
WideFaculty(k) ==
    MkTable(FacultyByPosition,
        [i \in 1..(k + 1) |-> <<IF i = k + 1 THEN k ELSE k + 1 - i, <<1, 2, 3>>>>])

FacultyInputs ==
    {MkTable(l, rs) : l \in FacultyLayouts,
                      rs \in SeqUpTo(InstNames \X FacultyCountVectors, MaxFacultyRows)}
    \cup {MkTable(FacultyNoSchoolName, rs) :
              rs \in SeqUpTo(InstNames \X FacultyCountVectors, 1)}
    \cup {WideFaculty(k) : k \in 3..MaxWide}

DegreesLayout ==
    [columns |-> <<"Year", "Unit Id", "Institution Name", "Sector",
                   "Bachelors Degrees", "Masters Degrees", "Doctoral Degrees">>,
     name_at |-> 3, counts_at |-> <<5, 6, 7>>]

DegreesInputs ==
    {MkTable(DegreesLayout, <<>>),
     MkTable(DegreesLayout, << <<2, <<1, 2, 3>>>>, <<1, <<3, 0, 5>>>> >>)}

ResearchLayout ==
    [columns |-> <<"Year", "Unit Id", "Institution Name">> \o fund_columns,
     name_at |-> 3, counts_at |-> <<4, 5, 6, 7, 8, 9, 10>>]

\* the fund columns in another order, behind an extra column
ResearchReordered ==
    [columns |-> <<"Year", "Unit Id", "Institution Name", "Sector",
                   "Research Expenditures State Fund Sum", "Non-Profit Fund Sum",
                   "Local Fund Sum", "Industry Fund Sum", "Individual Fund Sum",
                   "Foreign Fund Sum", "Federal Fund Sum">>,
     name_at |-> 3, counts_at |-> <<11, 10, 9, 8, 7, 6, 5>>]

\* a file that lacks one of the fund labels
ResearchMissingFund ==
    [columns |-> <<"Year", "Unit Id", "Institution Name", "Federal Fund Sum",
                   "Foreign Fund Sum", "Individual Fund Sum", "Industry Fund Sum",
                   "Local Fund Sum", "Non-Profit Fund Sum">>,
     name_at |-> 3, counts_at |-> <<4, 5, 6, 7, 8, 9>>]

PowersOfTwo == <<1, 2, 4, 8, 16, 32, 64>>

NoFunds == <<0, 0, 0, 0, 0, 0, 0>>

ResearchInputs ==
    {MkTable(ResearchLayout, << <<1, PowersOfTwo>>, <<2, NoFunds>> >>),
     MkTable(ResearchReordered, << <<2, PowersOfTwo>> >>),
     MkTable(ResearchMissingFund, << <<1, PowersOfTwo>> >>)}

(***************************************************************************)
(* The workbook: the sheet titles in creation order and, per sheet, the    *)
(* cells (a function on the <<row, column>> pairs that were written), the  *)
(* data validations, the charts and the styled cells.                      *)
(***************************************************************************)
NoCells == [x \in {} |-> Filler]

NoWorkbook ==
    [sheets |-> <<>>, cells |-> <<>>, validations |-> <<>>, charts |-> <<>>,
     bold |-> <<>>, bordered |-> <<>>]

\* wb.create_sheet(title): a new empty sheet after the existing ones
create_sheet(w, title) ==
    [sheets |-> Append(w.sheets, title),
     cells |-> Append(w.cells, NoCells),
     validations |-> Append(w.validations, <<>>),
     charts |-> Append(w.charts, <<>>),
     bold |-> Append(w.bold, {}),
     bordered |-> Append(w.bordered, {})]

\* openpyxl.Workbook(): a workbook that already holds one sheet, 'Sheet'
Workbook == create_sheet(NoWorkbook, "Sheet")

Sheet(w, title) == IndexOf(w.sheets, title)

HasSheet(w, title) == title \in Range(w.sheets)

CellsOf(w, title) == w.cells[Sheet(w, title)]

\* ws.cell(row, column, value) for every pair in the domain of written
WriteCells(w, title, written) ==
    [w EXCEPT !.cells[Sheet(w, title)] = written @@ @]

Init ==
    /\ pc = "read_faculty"
    /\ faculty_df = NoFrame
    /\ degrees_df = NoFrame
    /\ research_df = NoFrame
    /\ unique_institutions = <<>>
    /\ wb = NoWorkbook
    /\ output_file = <<>>

\* variant: the handler of the exception writes what has been built so far
Raise_WritingPartialFile ==
    /\ pc' = "aborted"
    /\ output_file' = Append(output_file, wb)

\* an uncaught exception ends the run; nothing is written
Raise ==
    /\ pc' = "aborted"
    /\ UNCHANGED output_file

ReadFaculty ==
    /\ pc = "read_faculty"
    /\ \/ /\ \E t \in FacultyInputs : faculty_df' = t
          /\ pc' = "read_degrees"
          /\ UNCHANGED output_file
       \/ /\ Raise
          /\ UNCHANGED faculty_df
    /\ UNCHANGED <<degrees_df, research_df, unique_institutions, wb>>

ReadDegrees ==
    /\ pc = "read_degrees"
    /\ \/ /\ \E t \in DegreesInputs : degrees_df' = t
          /\ pc' = "read_research"
          /\ UNCHANGED output_file
       \/ /\ Raise
          /\ UNCHANGED degrees_df
    /\ UNCHANGED <<faculty_df, research_df, unique_institutions, wb>>

ReadResearch ==
    /\ pc = "read_research"
    /\ \/ /\ \E t \in ResearchInputs : research_df' = t
          /\ pc' = "aggregate"
          /\ UNCHANGED output_file
       \/ /\ Raise
          /\ UNCHANGED research_df
    /\ UNCHANGED <<faculty_df, degrees_df, unique_institutions, wb>>

\* variant: the fields are taken by position (columns D to J) instead of by label
WithTotal_ByPosition(df) ==
    SetColumn(df, "Total Research Expenditures",
        [r \in DOMAIN df.rows |->
            SumSeq([k \in 1..7 |->
                IF IsNum(df.rows[r][3 + k]) THEN df.rows[r][3 + k].num ELSE 0])])

\* research_df['Total Research Expenditures'] = research_df[fund_columns].sum(axis=1)
WithTotal(df) ==
    SetColumn(df, "Total Research Expenditures", SumAxis1(df, fund_columns))

Aggregate ==
    /\ pc = "aggregate"
    /\ \/ /\ Range(fund_columns) \subseteq Range(research_df.columns)
          /\ research_df' = WithTotal(research_df)
          /\ pc' = "new_workbook"
          /\ UNCHANGED output_file
       \/ /\ ~(Range(fund_columns) \subseteq Range(research_df.columns))
          /\ Raise
          /\ UNCHANGED research_df
    /\ UNCHANGED <<faculty_df, degrees_df, unique_institutions, wb>>

NewWorkbook ==
    /\ pc = "new_workbook"
    /\ wb' = Workbook
    /\ pc' = "data_sheets"
    /\ UNCHANGED <<faculty_df, degrees_df, research_df, unique_institutions, output_file>>

(***************************************************************************)
(* create_data_sheets: one sheet per table, record r of the table in row   *)
(* r, field c in column c, counting from 1.                                *)
(***************************************************************************)
\* variant: the column labels are written to row 1, the records below
TableCells_WithHeader(df) ==
    [rc \in (1..(Len(df.rows) + 1)) \X (DOMAIN df.columns) |->
        IF rc[1] = 1 THEN Text(df.columns[rc[2]]) ELSE df.rows[rc[1] - 1][rc[2]]]

\* the two nested enumerate(..., 1) loops over one table
TableCells(df) ==
    [rc \in (DOMAIN df.rows) \X (DOMAIN df.columns) |-> df.rows[rc[1]][rc[2]]]

WriteTable(w, title, df) == WriteCells(create_sheet(w, title), title, TableCells(df))

create_data_sheets(w, fdf, ddf, rdf) ==
    WriteTable(WriteTable(WriteTable(w, "Faculty Data", fdf), "Degrees Data", ddf),
               "Research Data", rdf)

CreateDataSheets ==
    /\ pc = "data_sheets"
    /\ wb' = create_data_sheets(wb, faculty_df, degrees_df, research_df)
    /\ pc' = "lookups"
    /\ UNCHANGED <<faculty_df, degrees_df, research_df, unique_institutions, output_file>>

(***************************************************************************)
(* create_lookups_sheet                                                    *)
(***************************************************************************)
\* Series.unique(): the distinct values in order of first appearance
Unique(s) ==
    LET F[i \in 0..Len(s)] ==
            IF i = 0 THEN <<>>
            ELSE IF s[i] \in Range(F[i - 1]) THEN F[i - 1] ELSE Append(F[i - 1], s[i])
    IN  F[Len(s)]

\* x placed before the first element of the ascending sequence s that exceeds it
Insert(s, x) ==
    LET before == {i \in DOMAIN s : s[i].str <= x.str}
    IN  [i \in 1..(Len(s) + 1) |->
            IF i <= Cardinality(before) THEN s[i]
            ELSE IF i = Cardinality(before) + 1 THEN x ELSE s[i - 1]]

\* sorted(...): ascending, stable
Sorted(s) ==
    LET F[i \in 0..Len(s)] == IF i = 0 THEN <<>> ELSE Insert(F[i - 1], s[i])
    IN  F[Len(s)]

Letters == <<"A", "B", "C", "D", "E", "F", "G", "H", "I", "J", "K">>

Col(letter) == IndexOf(Letters, letter)

\* the cell a coordinate such as 'B2' names, as <<row, column>>
Cell(letter, row) == <<row, Col(letter)>>

\* variant: the distinct names in order of appearance, unsorted
InstitutionList_Unsorted(fdf) == Unique(Column(fdf, "School Name"))

\* line 64: the sorted distinct school names
InstitutionList(fdf) == Sorted(Unique(Column(fdf, "School Name")))

\* lines 65-67: the label in A1, the names from A2 downwards
LookupCells(insts) ==
    (Cell("A", 1) :> Text("Valid Institutions"))
    @@ [c \in {Cell("A", idx + 1) : idx \in DOMAIN insts} |-> insts[c[1] - 1]]

CreateLookupsSheet ==
    /\ pc = "lookups"
    /\ \/ /\ "School Name" \in Range(faculty_df.columns)
          /\ unique_institutions' = InstitutionList(faculty_df)
          /\ wb' = WriteCells(create_sheet(wb, "Lookups"), "Lookups",
                              LookupCells(unique_institutions'))
          /\ pc' = "academic"
          /\ UNCHANGED output_file
       \/ /\ ~("School Name" \in Range(faculty_df.columns))
          /\ wb' = create_sheet(wb, "Lookups")
          /\ Raise
          /\ UNCHANGED unique_institutions
    /\ UNCHANGED <<faculty_df, degrees_df, research_df>>

(***************************************************************************)
(* Formulas, as syntax trees of the generated text.                        *)
(***************************************************************************)
Formula(f) == [formula |-> f]
IsFormula(v) == DOMAIN v = {"formula"}

\* B2, $A14: a cell of the formula's own sheet
CellRef(letter, row) == [ref |-> Cell(letter, row)]

\* SUMIFS('sheet'!S:S,'sheet'!C:C,criterion)
SUMIFS(sheet, sum_letter, criteria_letter, criterion) ==
    [sumifs |-> sheet, sum_range |-> Col(sum_letter),
     criteria_range |-> Col(criteria_letter), criterion |-> criterion]

\* t1 + t2 + ...
Plus(terms) == [plus |-> terms]

\* a/b
Div(a, b) == [div |-> <<a, b>>]

\* IFERROR(x,0)
IFERROR(x, fallback) == [iferror |-> x, fallback |-> Num(fallback)]

\* variant: the third SUMIFS term is missing
TotalFacultyFormula_TwoTerms(row) ==
    Plus(<<SUMIFS("Faculty Data", "D", "B", CellRef("A", row)),
           SUMIFS("Faculty Data", "E", "B", CellRef("A", row))>>)

\* lines 183-187 and 197-201: Total Faculty
TotalFacultyFormula(row) ==
    Plus(<<SUMIFS("Faculty Data", "D", "B", CellRef("A", row)),
           SUMIFS("Faculty Data", "E", "B", CellRef("A", row)),
           SUMIFS("Faculty Data", "F", "B", CellRef("A", row))>>)

\* variant: the division without its IFERROR guard
RatioFormula_Unguarded(row, degree_letter) ==
    Div(CellRef("B", row),
        SUMIFS("Degrees Data", degree_letter, "C", CellRef("A", row)))

\* lines 190-192: Total Faculty over the degrees of one level
RatioFormula(row, degree_letter) ==
    IFERROR(Div(CellRef("B", row),
                SUMIFS("Degrees Data", degree_letter, "C", CellRef("A", row))), 0)

add_institution_academic_formulas(row) ==
    (Cell("B", row) :> Formula(TotalFacultyFormula(row)))
    @@ (Cell("C", row) :> Formula(RatioFormula(row, "E")))
    @@ (Cell("D", row) :> Formula(RatioFormula(row, "F")))
    @@ (Cell("E", row) :> Formula(RatioFormula(row, "G")))

\* lines 204-212: Total Research Expenditures
ResearchTotalFormula(row) ==
    Plus([k \in 1..7 |->
            SUMIFS("Research Data", Letters[Col("D") + k - 1], "C", CellRef("A", row))])

add_institution_research_formulas(row) ==
    (Cell("B", row) :> Formula(TotalFacultyFormula(row)))
    @@ (Cell("C", row) :> Formula(ResearchTotalFormula(row)))
    @@ (Cell("D", row) :> Formula(IFERROR(Div(CellRef("C", row), CellRef("B", row)), 0)))

\* the cells of n functions on disjoint domains, merged
RECURSIVE Merge(_)
Merge(fs) == IF fs = <<>> THEN NoCells ELSE Head(fs) @@ Merge(Tail(fs))

\* the primary row refers to B2, the comparison row i (0..4) to B5..B9
add_academic_formulas(start_row) ==
    (Cell("A", start_row + 2) :> Formula(CellRef("B", 2)))
    @@ add_institution_academic_formulas(start_row + 2)
    @@ Merge([k \in 1..5 |->
            (Cell("A", start_row + 3 + (k - 1)) :> Formula(CellRef("B", (k - 1) + 5)))
            @@ add_institution_academic_formulas(start_row + 3 + (k - 1))])

\* variant: the comparison rows refer to B4..B8
add_research_formulas_OffByOne(start_row) ==
    (Cell("A", start_row + 2) :> Formula(CellRef("B", 2)))
    @@ add_institution_research_formulas(start_row + 2)
    @@ Merge([k \in 1..5 |->
            (Cell("A", start_row + 3 + (k - 1)) :> Formula(CellRef("B", (k - 1) + 4)))
            @@ add_institution_research_formulas(start_row + 3 + (k - 1))])

add_research_formulas(start_row) ==
    (Cell("A", start_row + 2) :> Formula(CellRef("B", 2)))
    @@ add_institution_research_formulas(start_row + 2)
    @@ Merge([k \in 1..5 |->
            (Cell("A", start_row + 3 + (k - 1)) :> Formula(CellRef("B", (k - 1) + 5)))
            @@ add_institution_research_formulas(start_row + 3 + (k - 1))])

(***************************************************************************)
(* The dashboards.                                                         *)
(***************************************************************************)
metrics_start_row == 12

InstitutionLabels ==
    <<"Institution 1", "Institution 2", "Institution 3", "Institution 4",
      "Institution 5">>

\* lines 75-77 and 89-91 (115-117, 129-131): the fixed labels
HeaderCells(title) ==
    (Cell("A", 1) :> Text(title))
    @@ (Cell("A", 2) :> Text("Primary Institution:"))
    @@ (Cell("A", 4) :> Text("Comparison Institutions:"))
    @@ [c \in {Cell("A", i + 5) : i \in 0..4} |-> Text(InstitutionLabels[c[1] - 4])]

\* the cells the validation is added to: B2, then B5..B9
SelectorCells == {Cell("B", 2)} \cup {Cell("B", i + 5) : i \in 0..4}

\* DataValidation(type="list", formula1="=Lookups!$A$2:$A${len+1}", allow_blank=True)
ListValidation(insts) ==
    [type |-> "list",
     formula1 |-> [sheet |-> "Lookups", column |-> Col("A"), first_row |-> 2,
                   last_row |-> Len(insts) + 1],
     allow_blank |-> TRUE,
     cells |-> SelectorCells]

\* the section label and the header row of the metrics table
MetricsHeaderCells(headers) ==
    (Cell("A", metrics_start_row) :> Text("Metrics Summary"))
    @@ [c \in {<<metrics_start_row + 1, col>> : col \in DOMAIN headers} |->
            Text(headers[c[2]])]

\* Reference(dashboard, min_col, min_row, max_row): one column of cells
Reference(min_col, min_row, max_row) ==
    [min_col |-> min_col, min_row |-> min_row, max_col |-> min_col, max_row |-> max_row]

\* chart.add_data(data, titles_from_data=True) for each column, then set_categories
BarChart(title, data_cols, start_row) ==
    [title |-> title,
     series |-> [k \in DOMAIN data_cols |->
                    [values |-> Reference(data_cols[k], start_row + 1, start_row + 7),
                     titles_from_data |-> TRUE]],
     categories |-> Reference(1, start_row + 2, start_row + 7),
     anchor |-> "G2"]

\* variant: range(2, 6), which also plots Total Faculty
create_academic_chart_FromColumnB(start_row) ==
    BarChart("Faculty to Degree Ratios by Institution", <<2, 3, 4, 5>>, start_row)

create_academic_chart(start_row) ==
    BarChart("Faculty to Degree Ratios by Institution", <<3, 4, 5>>, start_row)

create_research_chart(start_row) ==
    BarChart("Research Dollars per Faculty by Institution", <<4>>, start_row)

\* style_dashboard: bold titles, bordered and centred metrics cells
\* (column widths are not represented)
style_dashboard(w, title, start_row, num_columns) ==
    [w EXCEPT !.bold[Sheet(w, title)] = {Cell("A", 1), Cell("A", start_row)},
              !.bordered[Sheet(w, title)] =
                  ((start_row + 1)..(start_row + 7)) \X (1..num_columns)]

\* the body shared by create_academic_dashboard and create_research_dashboard
Dashboard(w, title, heading, insts, headers, formulas, chart) ==
    LET w1 == create_sheet(w, title)
        w2 == WriteCells(w1, title, HeaderCells(heading))
        w3 == [w2 EXCEPT !.validations[Sheet(w2, title)] = Append(@, ListValidation(insts))]
        w4 == WriteCells(w3, title, MetricsHeaderCells(headers))
        w5 == WriteCells(w4, title, formulas)
        w6 == style_dashboard(w5, title, metrics_start_row, Len(headers))
    IN  [w6 EXCEPT !.charts[Sheet(w6, title)] = Append(@, chart)]

AcademicHeaders ==
    <<"Institution", "Total Faculty", "Faculty:Bachelors", "Faculty:Masters",
      "Faculty:Doctoral">>

ResearchHeaders ==
    <<"Institution", "Total Faculty", "Total Research Expenditures",
      "Research $ per Faculty">>

create_academic_dashboard(w, insts) ==
    Dashboard(w, "Academic Dashboard", "Academic Metrics Dashboard", insts,
              AcademicHeaders, add_academic_formulas(metrics_start_row),
              create_academic_chart(metrics_start_row))

create_research_dashboard(w, insts) ==
    Dashboard(w, "Research Dashboard", "Research Metrics Dashboard", insts,
              ResearchHeaders, add_research_formulas(metrics_start_row),
              create_research_chart(metrics_start_row))

CreateAcademicDashboard ==
    /\ pc = "academic"
    /\ wb' = create_academic_dashboard(wb, unique_institutions)
    /\ pc' = "research"
    /\ UNCHANGED <<faculty_df, degrees_df, research_df, unique_institutions, output_file>>

CreateResearchDashboard ==
    /\ pc = "research"
    /\ wb' = create_research_dashboard(wb, unique_institutions)
    /\ pc' = "save"
    /\ UNCHANGED <<faculty_df, degrees_df, research_df, unique_institutions, output_file>>

\* wb.save(output_file): the file receives the workbook as it is now
Save ==
    /\ pc = "save"
    /\ output_file' = Append(output_file, wb)
    /\ pc' = "done"
    /\ UNCHANGED <<faculty_df, degrees_df, research_df, unique_institutions, wb>>

(***************************************************************************)
(* What the formulas evaluate to once the saved workbook is opened and a   *)
(* user has typed into selector cells.                                     *)
(***************************************************************************)
Error(code) == [error |-> code]
IsError(v) == DOMAIN v = {"error"}

\* a/b for numbers: #DIV/0! when b is 0; a non-integral quotient stays a fraction
Quotient(a, b) ==
    IF b = 0 THEN Error("#DIV/0!")
    ELSE IF a % b = 0 THEN Num(a \div b) ELSE [ratio |-> <<a, b>>]

\* the rows of a sheet that hold a cell
RowsOf(cells) == {c[1] : c \in DOMAIN cells}

\* the sum of the numeric cells of one column over the given rows
RECURSIVE SumColumn(_, _, _)
SumColumn(cells, rows, col) ==
    IF rows = {} THEN 0
    ELSE LET r == CHOOSE x \in rows : TRUE
             v == IF <<r, col>> \in DOMAIN cells /\ IsNum(cells[<<r, col>>])
                  THEN cells[<<r, col>>].num ELSE 0
         IN  v + SumColumn(cells, rows \ {r}, col)

RECURSIVE Eval(_, _, _)
Eval(w, title, f) ==
    CASE "ref" \in DOMAIN f ->
            LET cells == CellsOf(w, title)
            IN  IF f.ref \notin DOMAIN cells THEN Num(0)
                ELSE IF IsFormula(cells[f.ref]) THEN Eval(w, title, cells[f.ref].formula)
                ELSE cells[f.ref]
      [] "sumifs" \in DOMAIN f ->
            LET criterion == Eval(w, title, f.criterion)
                data == CellsOf(w, f.sumifs)
                hits == {r \in RowsOf(data) :
                            /\ <<r, f.criteria_range>> \in DOMAIN data
                            /\ data[<<r, f.criteria_range>>] = criterion}
            IN  IF IsError(criterion) THEN criterion
                ELSE Num(SumColumn(data, hits, f.sum_range))
      [] "plus" \in DOMAIN f ->
            LET vs == [k \in DOMAIN f.plus |-> Eval(w, title, f.plus[k])]
            IN  IF \A k \in DOMAIN vs : IsNum(vs[k])
                THEN Num(SumSeq([k \in DOMAIN vs |-> vs[k].num]))
                ELSE Error("#VALUE!")
      [] "div" \in DOMAIN f ->
            LET a == Eval(w, title, f.div[1])
                b == Eval(w, title, f.div[2])
            IN  IF IsNum(a) /\ IsNum(b) THEN Quotient(a.num, b.num)
                ELSE Error("#VALUE!")
      [] "iferror" \in DOMAIN f ->
            LET v == Eval(w, title, f.iferror)
            IN  IF IsError(v) THEN f.fallback ELSE v

\* the workbook file as opened, with the given values typed into cells of a sheet
Opened(w, title, typed) == WriteCells(w, title, typed)

\* the value the engine shows in a cell of a sheet
Shown(w, title, cell) == Eval(w, title, [ref |-> cell])

\* the cells a range reference first:last of one column designates: the
\* rectangle between its two corners, whichever corner is written first
RangeRows(first_row, last_row) ==
    IF first_row <= last_row THEN first_row..last_row ELSE last_row..first_row

Next ==
    \/ ReadFaculty
    \/ ReadDegrees
    \/ ReadResearch
    \/ Aggregate
    \/ NewWorkbook
    \/ CreateDataSheets
    \/ CreateLookupsSheet
    \/ CreateAcademicDashboard
    \/ CreateResearchDashboard
    \/ Save

Spec == Init /\ [][Next]_vars
(***************************************************************************)
(* The aggregation alone, on a wider family of research tables: the state  *)
(* after the three reads, then line 21.                                    *)
(***************************************************************************)
UnitFunds == {[k \in 1..7 |-> IF k = j THEN 1 ELSE 0] : j \in 1..7}

FundVectors == {NoFunds, PowersOfTwo} \cup UnitFunds

AggResearchInputs ==
    {MkTable(l, rs) : l \in {ResearchLayout, ResearchReordered},
                      rs \in SeqUpTo({1} \X FundVectors, MaxResearchRows)}
    \cup {MkTable(ResearchMissingFund, << <<1, PowersOfTwo>> >>)}

AggInit ==
    /\ pc = "aggregate"
    /\ faculty_df = MkTable(FacultyByPosition, << <<1, <<1, 2, 3>>>> >>)
    /\ degrees_df = MkTable(DegreesLayout, << <<1, <<2, 4, 0>>>> >>)
    /\ research_df \in AggResearchInputs
    /\ unique_institutions = <<>>
    /\ wb = NoWorkbook
    /\ output_file = <<>>

AggNext == Aggregate

AggSpec == AggInit /\ [][AggNext]_vars

(***************************************************************************)
(* Claims.                                                                 *)
(***************************************************************************)
SixSheets ==
    <<"Faculty Data", "Degrees Data", "Research Data", "Lookups",
      "Academic Dashboard", "Research Dashboard">>

\* C1: after a completed run the workbook handed to save holds exactly the
\* six sheets Faculty Data, Degrees Data, Research Data, Lookups, Academic
\* Dashboard, Research Dashboard, in this order, and no other sheet.
C1_ExactlySixSheets ==
    pc = "done" => output_file[1].sheets = SixSheets

\* the number held by field label of record r
Field(df, r, label) == df.rows[r][IndexOf(df.columns, label)].num

\* C2: the aggregation appends exactly one field, 'Total Research
\* Expenditures', whose value in every row is the sum of that row's seven
\* fund fields; the rows keep their number, order and original values.
C2_TotalIsSumOfSevenFunds ==
    [][(pc = "aggregate" /\ pc' = "new_workbook") =>
        /\ research_df'.columns =
               Append(research_df.columns, "Total Research Expenditures")
        /\ Len(research_df'.rows) = Len(research_df.rows)
        /\ \A r \in DOMAIN research_df.rows :
            /\ Len(research_df'.rows[r]) = Len(research_df.rows[r]) + 1
            /\ SubSeq(research_df'.rows[r], 1, Len(research_df.rows[r]))
                   = research_df.rows[r]
            /\ research_df'.rows[r][Len(research_df.rows[r]) + 1] =
                   Num(Field(research_df, r, "Federal Fund Sum")
                       + Field(research_df, r, "Foreign Fund Sum")
                       + Field(research_df, r, "Individual Fund Sum")
                       + Field(research_df, r, "Industry Fund Sum")
                       + Field(research_df, r, "Local Fund Sum")
                       + Field(research_df, r, "Non-Profit Fund Sum")
                       + Field(research_df, r, "Research Expenditures State Fund Sum"))
      ]_vars

\* a two-row table has been aggregated, its first total being 127 or 1
C2_Witness ==
    /\ pc = "new_workbook"
    /\ Len(research_df.rows) = 2
    /\ research_df.rows[1][Len(research_df.columns)] = Num(127)
    /\ research_df.rows[2][Len(research_df.columns)] = Num(1)

LookupsReturned == pc \in {"academic", "research", "save", "done"}

\* C3: the list create_lookups_sheet returns holds exactly the distinct
\* 'School Name' values of the faculty table, each once, in strictly
\* ascending order.
C3_InstitutionSetSortedDistinct ==
    LookupsReturned =>
        LET c == IndexOf(faculty_df.columns, "School Name")
            names == {faculty_df.rows[r][c] : r \in DOMAIN faculty_df.rows}
            u == unique_institutions
        IN  /\ Range(u) = names
            /\ Len(u) = Cardinality(names)
            /\ \A i, j \in DOMAIN u : i < j => u[i].str < u[j].str

\* a table whose names repeat and are out of order has been listed
C3_Witness ==
    /\ LookupsReturned
    /\ faculty_df.columns = FacultyByPosition.columns
    /\ \E i, j \in DOMAIN faculty_df.rows :
          i < j /\ faculty_df.rows[i][2].str > faculty_df.rows[j][2].str
    /\ Len(unique_institutions) < Len(faculty_df.rows)

Dashboards == {"Academic Dashboard", "Research Dashboard"}

\* C4: whatever the number of institutions, each dashboard has the selector
\* cells B2 and B5..B9 and a metrics table of one header row (13) and six
\* data rows (14..19) whose institution cells refer to B2, B5, B6, B7, B8,
\* B9 in this order.
C4_SixMetricRows ==
    pc \in {"save", "done"} =>
        \A title \in Dashboards :
            LET cells == CellsOf(wb, title)
                dvs == wb.validations[Sheet(wb, title)]
                below == {r \in RowsOf(cells) : r >= 13}
            IN  /\ Len(dvs) = 1
                /\ dvs[1].cells = {<<2, 2>>, <<5, 2>>, <<6, 2>>, <<7, 2>>, <<8, 2>>, <<9, 2>>}
                /\ below = 13..19
                /\ \A c \in DOMAIN cells :
                      /\ c[1] = 13 => DOMAIN cells[c] = {"text"}
                      /\ c[1] \in 14..19 => IsFormula(cells[c])
                /\ cells[<<14, 1>>] = Formula([ref |-> <<2, 2>>])
                /\ \A i \in 1..5 : cells[<<14 + i, 1>>] = Formula([ref |-> <<4 + i, 2>>])

\* both dashboards are built for more than six institutions
C4_Witness ==
    /\ pc = "done"
    /\ Len(unique_institutions) > 6
    /\ \A title \in Dashboards : HasSheet(wb, title)

DataSheets == {"Faculty Data", "Degrees Data", "Research Data"}

\* the institution names that occur in some cell of some data sheet
NamesInData(w) ==
    {n \in 1..(MaxWide + 1) :
        \E title \in DataSheets : Str(n) \in Range(CellsOf(w, title))}

\* the selector cell of each metrics row
SelectorOfRow == [r \in 14..19 |-> IF r = 14 THEN <<2, 2>> ELSE <<r - 10, 2>>]

\* the metric columns of each dashboard
MetricColumns(title) == IF title = "Academic Dashboard" THEN 2..5 ELSE 2..4

\* C5: with an institution name that occurs in no data sheet typed into a
\* selector cell, every metric formula of the selector's metrics row, in
\* both dashboards, shows 0 and not an error value.
C5_AbsentInstitutionShowsZero ==
    pc = "done" =>
        \A title \in Dashboards, r \in 14..19 :
            \A n \in (1..(MaxWide + 1)) \ NamesInData(output_file[1]) :
                LET w == Opened(output_file[1], title, SelectorOfRow[r] :> Str(n))
                IN  \A col \in MetricColumns(title) : Shown(w, title, <<r, col>>) = Num(0)

\* the saved workbook has data in all three data sheets and some name is absent
C5_Witness ==
    /\ pc = "done"
    /\ \A title \in DataSheets : CellsOf(output_file[1], title) # NoCells
    /\ NamesInData(output_file[1]) # {}
    /\ (1..(MaxWide + 1)) \ NamesInData(output_file[1]) # {}

\* the sum of the three counts over the faculty rows of institution n, the
\* name being field name_at and the counts the fields counts_at of a record
FacultyOf(df, n, name_at, counts_at) ==
    SumSeq([r \in DOMAIN df.rows |->
              IF df.rows[r][name_at] = Str(n)
              THEN df.rows[r][counts_at[1]].num + df.rows[r][counts_at[2]].num
                   + df.rows[r][counts_at[3]].num
              ELSE 0])

\* Total Faculty of every metrics row of both dashboards is the sum of the
\* three counts over the rows of the selected institution
TotalFacultyIsSum(name_at, counts_at) ==
    \A title \in Dashboards, r \in 14..19, n \in 1..(MaxWide + 1) :
        LET w == Opened(output_file[1], title, SelectorOfRow[r] :> Str(n))
        IN  Shown(w, title, <<r, 2>>) = Num(FacultyOf(faculty_df, n, name_at, counts_at))

FullyBuilt(w) ==
    /\ \A title \in Range(SixSheets) : HasSheet(w, title)
    /\ <<1, 1>> \in DOMAIN CellsOf(w, "Lookups")
    /\ \A title \in Dashboards :
          /\ <<19, 2>> \in DOMAIN CellsOf(w, title)
          /\ Len(w.charts[Sheet(w, title)]) = 1

\* C7: the output file is written at most once, only after the data sheets,
\* the lookup sheet and both dashboards are built, and never in a run that
\* a failed step aborts.
C7_SingleWriteAtEnd ==
    /\ Len(output_file) <= 1
    /\ output_file # <<>> => (pc = "done" /\ FullyBuilt(output_file[1]))
    /\ pc = "aborted" => output_file = <<>>

\* the run completed and wrote its file
C7_Witness == pc = "done" /\ Len(output_file) = 1 /\ Len(faculty_df.rows) > 0

\* the sheet holds in (r, c) field c of record r and nothing else
Mirrors(cells, df) ==
    /\ DOMAIN cells = {<<r, c>> : r \in 1..Len(df.rows), c \in 1..Len(df.columns)}
    /\ \A r \in 1..Len(df.rows), c \in 1..Len(df.columns) : cells[<<r, c>>] = df.rows[r][c]
    /\ RowsOf(cells) = 1..Len(df.rows)

\* C8: each data sheet holds in cell (r, c) field c of record r of its
\* table, from row 1 and column 1, without a header row and without any
\* other cell.
C8_DataSheetsMirrorTables ==
    HasSheet(wb, "Research Data") =>
        /\ Mirrors(CellsOf(wb, "Faculty Data"), faculty_df)
        /\ Mirrors(CellsOf(wb, "Degrees Data"), degrees_df)
        /\ Mirrors(CellsOf(wb, "Research Data"), research_df)
        /\ research_df.columns[Len(research_df.columns)] = "Total Research Expenditures"

\* three non-empty tables were written
C8_Witness ==
    /\ HasSheet(wb, "Research Data")
    /\ Len(faculty_df.rows) = 2 /\ Len(degrees_df.rows) = 2 /\ Len(research_df.rows) = 2

\* C9: the validation range of the selector cells is Lookups column A rows
\* 2..N+1 and designates exactly the cells holding institution names: not
\* row 1, no name outside it, no empty cell inside it.
C9_ValidationRangeIsInstitutions ==
    pc \in {"save", "done"} =>
        \A title \in Dashboards :
            LET dv == wb.validations[Sheet(wb, title)][1]
                lookups == CellsOf(wb, "Lookups")
                range == {<<r, dv.formula1.column>> :
                             r \in RangeRows(dv.formula1.first_row, dv.formula1.last_row)}
                named == {c \in DOMAIN lookups : IsStr(lookups[c])}
            IN  /\ dv.formula1.sheet = "Lookups"
                /\ dv.formula1.first_row = 2
                /\ dv.formula1.last_row = Len(unique_institutions) + 1
                /\ range = named
                /\ <<1, 1>> \notin range
                /\ range \subseteq DOMAIN lookups

\* the columns and rows a chart's series and categories span
SeriesColumns(chart) == [k \in DOMAIN chart.series |-> chart.series[k].values.min_col]

SpansMetricsTable(chart) ==
    /\ \A k \in DOMAIN chart.series :
          /\ chart.series[k].values.min_row = 13
          /\ chart.series[k].values.max_row = 19
          /\ chart.series[k].values.max_col = chart.series[k].values.min_col
    /\ chart.categories = [min_col |-> 1, max_col |-> 1, min_row |-> 14, max_row |-> 19]

ChartOf(title) == wb.charts[Sheet(wb, title)][1]

\* C10 as stated: each chart plots every metric column other than the
\* institution (academic B..E, research B..D), each series over rows
\* 13..19, the categories being A14..A19.
C10_ChartPlotsEveryMetric ==
    pc \in {"save", "done"} =>
        /\ SeriesColumns(ChartOf("Academic Dashboard")) = <<2, 3, 4, 5>>
        /\ SeriesColumns(ChartOf("Research Dashboard")) = <<2, 3, 4>>
        /\ \A title \in Dashboards : SpansMetricsTable(ChartOf(title))

\* C10 amended: the academic chart plots the three ratio columns
\* (Faculty:Bachelors, Faculty:Masters, Faculty:Doctoral: C, D, E) and the
\* research chart the column Research $ per Faculty (D), each series over
\* rows 13..19, the categories being A14..A19.
C10_ChartPlotsRatios ==
    pc \in {"save", "done"} =>
        /\ SeriesColumns(ChartOf("Academic Dashboard")) = <<3, 4, 5>>
        /\ SeriesColumns(ChartOf("Research Dashboard")) = <<4>>
        /\ \A title \in Dashboards :
              /\ Len(wb.charts[Sheet(wb, title)]) = 1
              /\ SpansMetricsTable(ChartOf(title))
              /\ \A k \in DOMAIN ChartOf(title).series :
                    CellsOf(wb, title)[<<13, SeriesColumns(ChartOf(title))[k]>>]
                        \in {Text("Faculty:Bachelors"), Text("Faculty:Masters"),
                             Text("Faculty:Doctoral"), Text("Research $ per Faculty")}

\* both charts are in the saved workbook
C10_Witness ==
    /\ pc = "done"
    /\ \A title \in Dashboards : Len(output_file[1].charts[Sheet(output_file[1], title)]) = 1
====
